---- MODULE Spec2Model ----
(***************************************************************************)
(* The neural visualization engine of src/src/components/AIModelShowcase.tsx *)
(* as a state machine: the mount effect's closure state (selection, hover,  *)
(* liveness flag, pending frame), the colour and size buffers of the point  *)
(* cloud, the camera distance, the listeners and the resources the effect   *)
(* creates, and one action per handler.                                     *)
(*                                                                         *)
(* Numbers are fixed-point thousandths (1.0 is 1000): colour channels,     *)
(* sizes, sine samples, Math.random() samples and camera distances.        *)
(***************************************************************************)
EXTENDS Integers, Sequences, FiniteSets

(* ------------------------------------------------------------------ *)
(* Bounds of the model                                                 *)
(* ------------------------------------------------------------------ *)

\* Number of nodes of the point cloud (nodeCount is 300 in the source).
NodeCount == 2

\* Number of times the component function body runs while mounted.
MaxRenders == 2

\* Number of cursor-reset timeouts that may be pending at once.
MaxTimers == 1

\* Number of preset selections in one behaviour.
MaxSwitches == 2

\* Number of deferred resize callbacks of one kind that may be pending at once.
MaxCallbacks == 2

\* Number of words in an input of analyzeMood.
MaxWords == 1

\* Frames run with numeric positions.
MaxFrames == 2

\* BackgroundPattern: triangles (15 in the source) and frames of its loop.
TriangleCount == 2
MaxPatternFrames == 3

\* WavingHand: clicks on the hand, and the time modelled, in tenths of a second.
MaxHandClicks == 2
MaxTime == 45

\* Router: presses of the menu button, navigations, and the time modelled,
\* in tenths of a second.
MaxPresses == 3
MaxNavigations == 3
MaxNavTime == 14

\* Number of gsap ticker ticks in the 1.5 s of a tween.
TweenSteps == 3

Nodes == 0 .. (NodeCount - 1)

\* null of a number | null closure variable
Null == -1

\* Values of Math.sin(...) the frame may see, and of Math.random().
SinSamples == {-1000, 1000}
RandomSamples == {0, 999}

\* event.deltaY of a wheel event
DeltaYSamples == {-240, -120, 0, 120, 240}

(* ------------------------------------------------------------------ *)
(* Program constants                                                   *)
(* ------------------------------------------------------------------ *)

InitialDistance == 40000
minDistance == 30000
maxDistance == 100000
zoomSpeed == 800
SelectedSize == 4000
nodeCount == 300
helixRadius == 15000
helixHeight == 40000

Presets == {"calm", "energetic", "melancholic", "joyful"}

particleColors ==
    [calm        |-> << <<1000, 1000, 1000>>, <<700, 900, 1000>>,
                        <<800, 950, 1000>>, <<750, 850, 1000>> >>,
     energetic   |-> << <<1000, 1000, 1000>>, <<900, 700, 1000>>,
                        <<700, 900, 1000>>, <<1000, 800, 600>> >>,
     melancholic |-> << <<900, 900, 1000>>, <<700, 700, 900>>,
                        <<600, 800, 1000>>, <<800, 700, 900>> >>,
     joyful      |-> << <<1000, 1000, 1000>>, <<800, 1000, 900>>,
                        <<700, 900, 1000>>, <<900, 800, 1000>> >>]

pattern ==
    [calm |-> "flow", energetic |-> "explosion",
     melancholic |-> "wave", joyful |-> "sphere"]

\* getParticleEffect(settings).colorPulse
colorPulseOf(settings) ==
    CASE pattern[settings] = "explosion" -> 200
      [] pattern[settings] = "sphere"    -> 150
      [] pattern[settings] = "wave"      -> 100
      [] OTHER                           -> 50

\* backgroundColor of each preset, as the bytes of its hex string
backgroundColor ==
    [calm        |-> <<10, 15, 24>>,
     energetic   |-> <<15, 26, 45>>,
     melancholic |-> <<26, 26, 45>>,
     joyful      |-> <<13, 31, 45>>]

bloomStrengthOf ==
    [calm |-> 600, energetic |-> 1000, melancholic |-> 500, joyful |-> 800]

animationSpeed ==
    [calm |-> 80, energetic |-> 800, melancholic |-> 150, joyful |-> 500]

waveIntensity ==
    [calm |-> 500, energetic |-> 2500, melancholic |-> 800, joyful |-> 1800]

\* patternParams of each preset: only the keys the preset defines
patternParams ==
    [calm        |-> [radius |-> 25000, spread |-> 45000, frequency |-> 150,
                      amplitude |-> 10000, wavelength |-> 4000,
                      flowSpeed |-> 50],
     energetic   |-> [radius |-> 30000, spread |-> 55000, frequency |-> 1800,
                      amplitude |-> 12000],
     melancholic |-> [amplitude |-> 10000, frequency |-> 400, spread |-> 45000,
                      radius |-> 20000],
     joyful      |-> [radius |-> 25000, spread |-> 50000, frequency |-> 1200,
                      amplitude |-> 12000]]

description ==
    [calm        |-> "A sophisticated neural network visualization with smooth, flowing connections representing AI processing patterns.",
     energetic   |-> "Dynamic neural pathways showcasing the power of AI-driven solutions and rapid information processing.",
     melancholic |-> "Complex wave patterns representing deep learning algorithms processing intricate data structures.",
     joyful      |-> "An energetic visualization of AI networks collaborating in perfect harmony, showcasing the beauty of intelligent systems."]

\* The object literal moodPresets is initialised with.
moodPresetsLiteral ==
    [m \in Presets |->
        [backgroundColor |-> backgroundColor[m],
         particleColors  |-> particleColors[m],
         animationSpeed  |-> animationSpeed[m],
         waveIntensity   |-> waveIntensity[m],
         pattern         |-> pattern[m],
         patternParams   |-> patternParams[m],
         bloomStrength   |-> bloomStrengthOf[m],
         description     |-> description[m]]]

pastelColors ==
    << <<1000, 1000, 1000>>, <<700, 900, 1000>>, <<900, 700, 1000>>,
       <<800, 1000, 900>>, <<1000, 850, 700>> >>

ContainerEvents == {"mousemove", "click", "wheel", "contextmenu"}

\* What the mount effect creates and somebody has to release.
SetupResources ==
    {"geometry", "material", "renderer", "composer", "controls", "p5"}

(* ------------------------------------------------------------------ *)
(* State                                                               *)
(* ------------------------------------------------------------------ *)

VARIABLES
    isActive,            \* liveness flag of the mount effect's closure
    initPc,              \* where init() is: "initModel", "compile", "started", "failed"
    framePending,        \* a requestAnimationFrame(animate) callback is scheduled
    isLoading, error,    \* React state shown as the loading / error overlay
    animationSettings,   \* animationSettingsRef.current, a key of moodPresets
    currentMood,         \* React state: the value of the mood select
    moodDescription,     \* React state: the description shown under the select
    selectedNode, hoveredNode,
    nodePos,             \* nodes[i].position, as an abstract cell
    positions,           \* position attribute: node -> the position written to it
    colors,              \* colour attribute: node -> <<r, g, b>>
    colorSrc,            \* which statement wrote the node's colour entries last
    sizes,               \* size attribute: node -> size
    rendered,            \* the last step issued composer.render()
    lastEvent,           \* the handler the last step ran, and the node its ray hit
    cameraDistance,      \* camera.position.distanceTo(controls.target)
    cursor,              \* container.style.cursor
    cursorTimers,        \* pending setTimeout callbacks of onWheel
    containerListeners,  \* event types with a listener on the container
    resizeListeners,     \* renders whose handleResize is registered on window
    renderCount,         \* how often the component body has run
    live,                \* resources created and not yet released
    lastClick,           \* the last click: the node hit, the selection before it
    moodPresets,         \* the preset table, as the objects it holds now
    background,          \* scene.background: <<r, g, b>>
    bloomStrength,       \* bloomPass.strength
    tweens,              \* running gsap tweens, oldest first, one entry per switch
    resizeCallbacks,     \* pending requestAnimationFrame callbacks of resize handling
    fault,               \* the exception the last step raised, or "none"
    frame,               \* frames counted where positions are numeric
    targets,             \* node -> <<targetX, targetY, targetZ>> of the last frame
    helixCount,          \* the nodeCount the generation loop runs with
    nodes,               \* the nodes the generation loop has pushed so far
    patternPhase,        \* BackgroundPattern: "initial", "mounted" or "cleaned"
    patternFramePending, \* a requestAnimationFrame(animate) callback of it is scheduled
    patternLive,         \* what its effect created and has not released
    patternFrames,       \* how often its animate has run
    triangleY,           \* triangle -> position.y
    rendererSize,        \* the size its renderer was last given
    patternRender,       \* what its last step rendered against: "none", "live", "disposed"
    handMounted,         \* ProfileSidebar with its WavingHand is mounted
    sidebarIsOpen,       \* ProfileSidebar's isOpen
    isWaving,
    emoji, showToast, toastMessage, hasShownInitialMessage,
    handTimers,          \* heyTimer, promptTimer, mainTimer, hideTimer: deadline or Null
    wavingTimers,        \* deadlines of the pending setIsWaving(false) timeouts
    effectCleanup,       \* the cleanup the isOpen effect returned last: "none", "open", "close"
    now,                 \* time in tenths of a second
    handClicks,          \* clicks on the hand so far
    handEvent,           \* what the last step of the hand was
    appMounted,          \* App's first effects have run
    location,            \* useLocation(): [pathname, key], a new object per navigation
    isOpen,              \* Navbar's isOpen: the mobile menu is rendered
    isNavigating,        \* NavigationIndicator's isNavigating: the bar is rendered
    pendingTimers,       \* deadlines of NavigationIndicator's pending timeouts
    timer,               \* the timer the effect's last cleanup closes over, or Null
    clock,               \* time since App's first effects, in tenths of a second
    lastRouteChange,     \* when the effects on [location] last ran
    presses,             \* presses of the menu button so far
    navEvent             \* what the last step of the router was

showcaseVars ==
    << isActive, initPc, framePending, isLoading, error, animationSettings,
       selectedNode, hoveredNode, nodePos, positions, colors, colorSrc,
       sizes, rendered,
       lastEvent,
       cameraDistance, cursor, cursorTimers, containerListeners,
       resizeListeners, renderCount, live, lastClick,
       moodPresets, background, bloomStrength, tweens,
       resizeCallbacks, fault, frame, targets, currentMood, moodDescription >>

helixVars == << helixCount, nodes >>
patternVars ==
    << patternPhase, patternFramePending, patternLive, patternFrames,
       triangleY, rendererSize, patternRender >>
handVars ==
    << handMounted, sidebarIsOpen, isWaving, emoji, showToast, toastMessage,
       hasShownInitialMessage, handTimers, wavingTimers, effectCleanup, now,
       handClicks, handEvent >>

\* Navbar and NavigationIndicator under App's Router.
routerVars ==
    << appMounted, location, isOpen, isNavigating, pendingTimers, timer,
       clock, lastRouteChange, presses, navEvent >>

\* The state outside the mounted showcase's engine.
restVars == << helixVars, patternVars, handVars, routerVars >>

\* What the steps of one component leave alone.
notHelix == << showcaseVars, patternVars, handVars, routerVars >>
notPattern == << showcaseVars, helixVars, handVars, routerVars >>
notHand == << showcaseVars, helixVars, patternVars, routerVars >>
notRouter == << showcaseVars, helixVars, patternVars, handVars >>

vars == << showcaseVars, restVars >>

lifecycleVars == << isActive, initPc, framePending, isLoading, error >>
pointerVars == << selectedNode, hoveredNode >>
bufferVars == << nodePos, positions, colors, colorSrc, sizes >>
zoomVars == << cameraDistance, cursorTimers >>
domVars == << containerListeners, resizeListeners, renderCount, live >>
sceneVars == << moodPresets, background, bloomStrength, tweens >>
resizeVars == << resizeCallbacks, fault >>
motionVars == << frame, targets >>
moodVars == << currentMood, moodDescription >>

(* ------------------------------------------------------------------ *)
(* Pure helpers                                                        *)
(* ------------------------------------------------------------------ *)

Min(a, b) == IF a < b THEN a ELSE b
Max(a, b) == IF a > b THEN a ELSE b

\* a * b for thousandths
Mul(a, b) == (a * b) \div 1000

Sign(x) == IF x > 0 THEN 1 ELSE IF x < 0 THEN -1 ELSE 0

Grey(v) == <<v, v, v>>

\* new THREE.Color('#rrggbb'): each byte as a channel in [0, 1]
Color(bytes) == [c \in 1 .. 3 |-> (bytes[c] * 1000) \div 255]

Event(type, hit) == [type |-> type, hit |-> hit]

\* settings.particleColors[i % settings.particleColors.length]
baseColor(settings, i) ==
    particleColors[settings][(i % Len(particleColors[settings])) + 1]

isSecondStrand(i) == 2 * i >= NodeCount

\* colors of node i as the generation loop writes them
initialColor(i) == pastelColors[IF isSecondStrand(i) THEN 2 ELSE 3]

\* sizes[i] = 1.0 + Math.random() * 0.5
initialSize(r) == 1000 + Mul(r, 500)

(* ------------------------------------------------------------------ *)
(* The interaction helpers of the mount effect                         *)
(* ------------------------------------------------------------------ *)

\* The closure state the helpers read and write.
State ==
    [sel |-> selectedNode, hov |-> hoveredNode,
     colors |-> colors, src |-> colorSrc, sizes |-> sizes]

\* const intensity = 0.7 + Math.random() * 0.3, written to all three entries
resetNodeColor(st, index, r) ==
    [st EXCEPT !.colors[index] = Grey(700 + Mul(r, 300)),
               !.src[index] = "reset"]

\* Variant: hovering records the node but does not recolour it.
handleNodeHoverNoHighlight(st, index, r) ==
    IF st.hov = index THEN st
    ELSE LET s1 == IF st.hov # Null /\ st.hov # st.sel
                   THEN resetNodeColor(st, st.hov, r) ELSE st
         IN  [s1 EXCEPT !.hov = index]

handleNodeHover(st, index, r) ==
    IF st.hov = index THEN st
    ELSE LET s1 == IF st.hov # Null /\ st.hov # st.sel
                   THEN resetNodeColor(st, st.hov, r) ELSE st
             s2 == [s1 EXCEPT !.hov = index]
         IN  IF index # s2.sel
             THEN [s2 EXCEPT !.colors[index] = Grey(900),
                             !.src[index] = "hover"]
             ELSE s2

resetHoveredNode(st, r) ==
    LET s1 == IF st.hov # Null /\ st.hov # st.sel
              THEN resetNodeColor(st, st.hov, r) ELSE st
    IN  [s1 EXCEPT !.hov = Null]

\* Variant: a click always selects the node it hits (no toggle).
handleNodeSelectNoToggle(st, index, r) ==
    LET s1 == IF st.sel # Null THEN resetNodeColor(st, st.sel, r) ELSE st
    IN  [s1 EXCEPT !.sel = index,
                   !.colors[index] = Grey(1000),
                   !.src[index] = "select",
                   !.sizes[index] = SelectedSize]

\* Variant: a click while another node is selected only clears the selection.
handleNodeSelectClearFirst(st, index, r) ==
    LET s1 == IF st.sel # Null THEN resetNodeColor(st, st.sel, r) ELSE st
        s2 == [s1 EXCEPT !.sel = IF s1.sel # Null THEN Null ELSE index]
    IN  IF s2.sel # Null
        THEN [s2 EXCEPT !.colors[index] = Grey(1000),
                        !.src[index] = "select",
                        !.sizes[index] = SelectedSize]
        ELSE s2

\* Variant: selecting a node appends an entry to the size buffer.
handleNodeSelectAppends(st, index, r) ==
    [st EXCEPT !.sel = index,
               !.sizes = [i \in 0 .. NodeCount |->
                            IF i \in DOMAIN st.sizes /\ i # index
                            THEN st.sizes[i] ELSE SelectedSize]]

handleNodeSelect(st, index, r) ==
    LET s1 == IF st.sel # Null THEN resetNodeColor(st, st.sel, r) ELSE st
        s2 == [s1 EXCEPT !.sel = IF s1.sel = index THEN Null ELSE index]
    IN  IF s2.sel # Null
        THEN [s2 EXCEPT !.colors[index] = Grey(1000),
                        !.src[index] = "select",
                        !.sizes[index] = SelectedSize]
        ELSE s2

\* Variant: the hovered test comes before the selected test.
colorBranchHoverFirst(i, sel, hov) ==
    IF hov = i THEN "frameHovered"
    ELSE IF sel = i THEN "frameSelected"
    ELSE "frameIdle"

\* The branch of updateParticleColors that colours node i.
colorBranch(i, sel, hov) ==
    IF sel = i THEN "frameSelected"
    ELSE IF hov = i THEN "frameHovered"
    ELSE "frameIdle"

\* updateParticleColors: the three entries written for node i.  s5, s3 are
\* sin(time * 5.0) and sin(time * 3.0); sd and su are the sines behind
\* distanceFactor and behind uniqueFactor / colorPulse.
\* Variant: the hovered and idle branches write base * factor without Math.min.
updateParticleColorsUnclamped(i, settings, sel, hov, s5, s3, sd, su) ==
    LET base == baseColor(settings, i)
        distanceFactor == Mul(sd, 500) + 500
        uniqueFactor == Mul(su, 500) + 500
        colorPulse == Mul(su, colorPulseOf(settings))
        pulse == Mul(s5, 200) + 800
        hoverPulse == Mul(s3, 150) + 850
        intensity == 700 + Mul(distanceFactor, 200) + Mul(uniqueFactor, 100)
                         + colorPulse
    IN  CASE colorBranch(i, sel, hov) = "frameSelected" -> Grey(pulse)
          [] colorBranch(i, sel, hov) = "frameHovered" ->
                [c \in 1 .. 3 |-> Mul(Mul(base[c], 1300), hoverPulse)]
          [] OTHER ->
                [c \in 1 .. 3 |-> Mul(base[c], intensity)]

updateParticleColors(i, settings, sel, hov, s5, s3, sd, su) ==
    LET base == baseColor(settings, i)
        distanceFactor == Mul(sd, 500) + 500
        uniqueFactor == Mul(su, 500) + 500
        colorPulse == Mul(su, colorPulseOf(settings))
        pulse == Mul(s5, 200) + 800
        hoverPulse == Mul(s3, 150) + 850
        intensity == 700 + Mul(distanceFactor, 200) + Mul(uniqueFactor, 100)
                         + colorPulse
    IN  CASE colorBranch(i, sel, hov) = "frameSelected" -> Grey(pulse)
          [] colorBranch(i, sel, hov) = "frameHovered" ->
                [c \in 1 .. 3 |-> Min(Mul(Mul(base[c], 1300), hoverPulse), 1000)]
          [] OTHER ->
                [c \in 1 .. 3 |-> Min(Mul(base[c], intensity), 1000)]

\* Variant: animate without its liveness guard.
frameRunsAlways(active) == TRUE

\* node.position after one frame's easing toward the target and its random
\* jitter: a position other than the one before.  The arithmetic is abstracted
\* to two alternating cells; 0 is the helix position of the generation loop.
movedPosition(pos) == IF pos = 1 THEN 2 ELSE 1

\* if (!isActive) return;  at the top of animate
frameRuns(active) == active

\* Variant: the new distance is capped above but not below.
zoomedDistanceNoFloor(distance, deltaY) ==
    Min(maxDistance, distance - (-Sign(deltaY)) * zoomSpeed * 2)

\* Math.max(minDistance, Math.min(maxDistance, distance - delta * zoomSpeed * 2))
zoomedDistance(distance, deltaY) ==
    Max(minDistance,
        Min(maxDistance, distance - (-Sign(deltaY)) * zoomSpeed * 2))

(* ------------------------------------------------------------------ *)
(* The generation loop of the double helix, for a node count n.       *)
(* Angles are in units of pi / n and heights in units of 1 / n, so    *)
(* that both are integers.                                            *)
(* ------------------------------------------------------------------ *)

\* The node counts the loop is run with: the model's, its double, the source's.
HelixCounts == {NodeCount, 2 * NodeCount, nodeCount}

\* Math.PI, the offset between the two strands
helixOffset(n) == n

\* Variant: the node at the middle index stays on the first strand.
generatedNodeLateSplit(i, n) ==
    LET second == 2 * i > n
        twiceStrandIndex == IF second THEN 2 * i - n ELSE 2 * i
    IN  [isSecondStrand |-> second,
         baseAngle |-> 4 * twiceStrandIndex
                          + (IF second THEN helixOffset(n) ELSE 0),
         heightProgress |-> 2 * twiceStrandIndex - n]

\* The node the loop pushes at index i:
\*   isSecondStrand = i >= nodeCount / 2
\*   strandIndex = isSecondStrand ? i - nodeCount / 2 : i
\*   progress = strandIndex / (nodeCount / 2) * Math.PI * 2 * helixTurns
\*   angle = progress + (isSecondStrand ? helixOffset : 0)
\*   heightProgress = strandIndex / (nodeCount / 2) * 2 - 1
generatedNode(i, n) ==
    LET second == 2 * i >= n
        twiceStrandIndex == IF second THEN 2 * i - n ELSE 2 * i
    IN  [isSecondStrand |-> second,
         baseAngle |-> 4 * twiceStrandIndex
                          + (IF second THEN helixOffset(n) ELSE 0),
         heightProgress |-> 2 * twiceStrandIndex - n]

\* nodes after the whole loop
generated(n) == [k \in 1 .. n |-> generatedNode(k - 1, n)]

(* ------------------------------------------------------------------ *)
(* BackgroundPattern: constants and the state before its mount effect *)
(* ------------------------------------------------------------------ *)

Triangles == 0 .. (TriangleCount - 1)

\* container.clientWidth and clientHeight, as the sizes a resize may find
ContainerSizes == {<<800, 600>>, <<1200, 600>>}

\* What the mount effect of BackgroundPattern creates or registers.
PatternResources ==
    {"renderer", "geometry", "materials", "canvas", "resizeListener"}

PatternInit ==
    /\ patternPhase = "initial"
    /\ patternFramePending = FALSE
    /\ patternLive = {}
    /\ patternFrames = 0
    /\ triangleY = [t \in Triangles |-> 0]
    /\ rendererSize = <<0, 0>>
    /\ patternRender = "none"

\* The showcase's generation loop has run for the model's node count.
HelixDone ==
    /\ helixCount = NodeCount
    /\ nodes = generated(NodeCount)

(* ------------------------------------------------------------------ *)
(* WavingHand of ProfileSidebar: constants and the state at mount     *)
(* ------------------------------------------------------------------ *)

Hey == "Hey!"
ClickPrompt == "Click me to open!"
NiceToMeetYou == "Nice to meet you!"
Psst == "Psst... give me a click when you're done!"
SeeYouLater == "See you later!"

\* Delays of the setTimeout calls, in tenths of a second.
heyDelay == 10
promptDelay == 20
mainDelay == 13
hideDelay == 20
wavingDelay == 15

NoTimers == [hey |-> Null, prompt |-> Null, main |-> Null, hide |-> Null]

\* The first render of ProfileSidebar and WavingHand, before their effects.
HandInit ==
    /\ handMounted = FALSE
    /\ sidebarIsOpen = FALSE
    /\ isWaving = FALSE
    /\ emoji = "wave"
    /\ showToast = FALSE
    /\ toastMessage = ""
    /\ hasShownInitialMessage = FALSE
    /\ handTimers = NoTimers
    /\ wavingTimers = {}
    /\ effectCleanup = "none"
    /\ now = 0
    /\ handClicks = 0
    /\ handEvent = "render"

(* ------------------------------------------------------------------ *)
(* Router: Navbar and NavigationIndicator, constants and first render *)
(* ------------------------------------------------------------------ *)

\* The paths of navLinks.
navLinks == {"/", "/projects", "/contact"}

\* Delay of NavigationIndicator's timeout (500 ms), in tenths of a second.
navDelay == 5

\* The first render of App at "/", before any effect.
RouterInit ==
    /\ appMounted = FALSE
    /\ location = [pathname |-> "/", key |-> 0]
    /\ isOpen = FALSE
    /\ isNavigating = FALSE
    /\ pendingTimers = {}
    /\ timer = Null
    /\ clock = 0
    /\ lastRouteChange = 0
    /\ presses = 0
    /\ navEvent = "render"

\* The other components before their effects.
OthersInit ==
    /\ PatternInit
    /\ HandInit
    /\ RouterInit

\* The state outside the showcase's engine: the helix generated, the other
\* components before their effects.
RestInit ==
    /\ HelixDone
    /\ OthersInit

(* ------------------------------------------------------------------ *)
(* Initial state: the first render has run and the mount effect has    *)
(* built the scene, registered its listeners and called init().        *)
(* ------------------------------------------------------------------ *)

Init ==
    /\ isActive = TRUE
    /\ initPc = "initModel"
    /\ framePending = FALSE
    /\ isLoading = TRUE
    /\ error = FALSE
    /\ animationSettings = "calm"
    /\ currentMood = "calm"
    /\ moodDescription = description["calm"]
    /\ selectedNode = Null
    /\ hoveredNode = Null
    /\ nodePos = [i \in Nodes |-> 0]
    /\ positions = [i \in Nodes |-> 0]
    /\ colors = [i \in Nodes |-> initialColor(i)]
    /\ colorSrc = [i \in Nodes |-> "init"]
    /\ sizes \in {[i \in Nodes |-> initialSize(r)] : r \in RandomSamples}
    /\ rendered = FALSE
    /\ lastEvent = Event("mount", Null)
    /\ cameraDistance = InitialDistance
    /\ cursor = "unset"
    /\ cursorTimers = 0
    /\ containerListeners = ContainerEvents
    /\ resizeListeners = {1}
    /\ renderCount = 1
    /\ live = SetupResources
    /\ lastClick = [hit |-> Null, before |-> Null]
    /\ moodPresets = moodPresetsLiteral
    /\ background = Color(backgroundColor["calm"])
    /\ bloomStrength = bloomStrengthOf["calm"]
    /\ tweens = << >>
    /\ resizeCallbacks = [resize |-> 0, sidebar |-> 0]
    /\ fault = "none"
    /\ frame = 0
    /\ targets = [i \in Nodes |-> <<0, 0, 0>>]
    /\ RestInit

(* ------------------------------------------------------------------ *)
(* Actions                                                             *)
(* ------------------------------------------------------------------ *)

\* Assign the closure state a helper returned.
Store(st) ==
    /\ selectedNode' = st.sel
    /\ hoveredNode' = st.hov
    /\ colors' = st.colors
    /\ colorSrc' = st.src
    /\ sizes' = st.sizes

\* One invocation of animate(): guard, reschedule, move and recolour every
\* node, copy the positions into the buffer, render.  Each sine is sampled
\* once per frame.
AnimateCall ==
    IF frameRuns(isActive)
    THEN \E s5 \in SinSamples, s3 \in SinSamples,
            sd \in SinSamples, su \in SinSamples :
            /\ framePending' = TRUE
            /\ nodePos' = [i \in Nodes |-> movedPosition(nodePos[i])]
            /\ positions' = nodePos'
            /\ colors' = [i \in Nodes |->
                            updateParticleColors(i, animationSettings,
                                selectedNode, hoveredNode, s5, s3, sd, su)]
            /\ colorSrc' = [i \in Nodes |->
                            colorBranch(i, selectedNode, hoveredNode)]
            /\ rendered' = TRUE
            /\ UNCHANGED sizes
    ELSE /\ framePending' = FALSE
         /\ rendered' = FALSE
         /\ UNCHANGED bufferVars

\* Variant: the frame callback forgets the hovered node.
AnimateClearsHover ==
    /\ framePending
    /\ AnimateCall
    /\ lastEvent' = Event("frame", Null)
    /\ hoveredNode' = Null
    /\ UNCHANGED << isActive, initPc, isLoading, error, animationSettings,
                    selectedNode, cameraDistance, cursor, cursorTimers,
                    domVars, lastClick >>
    /\ UNCHANGED << sceneVars, resizeVars >>
    /\ UNCHANGED << motionVars, moodVars, restVars >>

\* The browser runs the scheduled frame callback.
Animate ==
    /\ framePending
    /\ AnimateCall
    /\ lastEvent' = Event("frame", Null)
    /\ UNCHANGED << isActive, initPc, isLoading, error, animationSettings,
                    pointerVars, cameraDistance, cursor, cursorTimers,
                    domVars, lastClick >>
    /\ UNCHANGED << sceneVars, resizeVars >>
    /\ UNCHANGED << motionVars, moodVars, restVars >>

OnMouseMove ==
    /\ "mousemove" \in containerListeners
    /\ \E hit \in Nodes \cup {Null}, r \in RandomSamples :
          /\ Store(IF hit # Null THEN handleNodeHover(State, hit, r)
                   ELSE resetHoveredNode(State, r))
          /\ UNCHANGED << nodePos, positions >>
          /\ cursor' = IF hit # Null THEN "pointer" ELSE "default"
          /\ lastEvent' = Event("mousemove", hit)
    /\ rendered' = FALSE
    /\ UNCHANGED << lifecycleVars, animationSettings, zoomVars, domVars,
                    lastClick >>
    /\ UNCHANGED << sceneVars, resizeVars >>
    /\ UNCHANGED << motionVars, moodVars, restVars >>

OnClick ==
    /\ "click" \in containerListeners
    /\ \E hit \in Nodes \cup {Null}, r \in RandomSamples :
          /\ Store(IF hit # Null THEN handleNodeSelect(State, hit, r)
                   ELSE State)
          /\ UNCHANGED << nodePos, positions >>
          /\ lastClick' = [hit |-> hit, before |-> selectedNode]
          /\ lastEvent' = Event("click", hit)
    /\ rendered' = FALSE
    /\ UNCHANGED << lifecycleVars, animationSettings, zoomVars, cursor, domVars >>
    /\ UNCHANGED << sceneVars, resizeVars >>
    /\ UNCHANGED << motionVars, moodVars, restVars >>

OnWheel ==
    /\ "wheel" \in containerListeners
    /\ \E deltaY \in DeltaYSamples, inside \in BOOLEAN :
          /\ IF inside
             THEN /\ cursorTimers < MaxTimers
                  /\ cameraDistance' = zoomedDistance(cameraDistance, deltaY)
                  /\ cursor' = "zoom-in"
                  /\ cursorTimers' = cursorTimers + 1
             ELSE UNCHANGED << cameraDistance, cursor, cursorTimers >>
          \* the event as the handler saw it: deltaY is read only inside
          /\ lastEvent' = [type |-> "wheel", hit |-> Null, inside |-> inside,
                           deltaY |-> IF inside THEN deltaY ELSE 0]
    /\ rendered' = FALSE
    /\ UNCHANGED << lifecycleVars, animationSettings, pointerVars, bufferVars,
                    domVars, lastClick >>
    /\ UNCHANGED << sceneVars, resizeVars >>
    /\ UNCHANGED << motionVars, moodVars, restVars >>

\* setTimeout(() => { if (containerRef.current) ... cursor = 'default' }, 300)
CursorTimeout ==
    /\ cursorTimers > 0
    /\ cursorTimers' = cursorTimers - 1
    /\ cursor' = IF isActive THEN "default" ELSE cursor
    /\ rendered' = FALSE
    /\ lastEvent' = Event("timeout", Null)
    /\ UNCHANGED << lifecycleVars, animationSettings, pointerVars, bufferVars,
                    cameraDistance, domVars, lastClick >>
    /\ UNCHANGED << sceneVars, resizeVars >>
    /\ UNCHANGED << motionVars, moodVars, restVars >>

\* The component body runs again (a state or prop change): line 518 registers
\* this render's handleResize on window.
Render ==
    /\ isActive
    /\ renderCount < MaxRenders
    /\ renderCount' = renderCount + 1
    /\ resizeListeners' = resizeListeners \cup {renderCount + 1}
    /\ rendered' = FALSE
    /\ lastEvent' = Event("render", Null)
    /\ UNCHANGED << lifecycleVars, animationSettings, pointerVars, bufferVars,
                    zoomVars, cursor, containerListeners, live, lastClick >>
    /\ UNCHANGED << sceneVars, resizeVars >>
    /\ UNCHANGED << motionVars, moodVars, restVars >>

\* tfModel = await initModel() resolves
InitModelDone ==
    /\ initPc = "initModel"
    /\ initPc' = "compile"
    /\ live' = live \cup {"tfModel"}
    /\ rendered' = FALSE
    /\ lastEvent' = Event("initModel", Null)
    /\ UNCHANGED << isActive, framePending, isLoading, error, animationSettings,
                    pointerVars, bufferVars, zoomVars, cursor,
                    containerListeners, resizeListeners, renderCount, lastClick >>
    /\ UNCHANGED << sceneVars, resizeVars >>
    /\ UNCHANGED << motionVars, moodVars, restVars >>

\* await tfModel.compile(...) resolves: animate(); setIsLoading(false)
InitCompileDone ==
    /\ initPc = "compile"
    /\ initPc' = "started"
    /\ AnimateCall
    /\ isLoading' = IF isActive THEN FALSE ELSE isLoading
    /\ lastEvent' = Event("initCompile", Null)
    /\ UNCHANGED << isActive, error, animationSettings, pointerVars, zoomVars,
                    cursor, domVars, lastClick >>
    /\ UNCHANGED << sceneVars, resizeVars >>
    /\ UNCHANGED << motionVars, moodVars, restVars >>

\* either await rejects: the catch block of init
InitFail ==
    /\ initPc \in {"initModel", "compile"}
    /\ initPc' = "failed"
    /\ error' = IF isActive THEN TRUE ELSE error
    /\ isLoading' = IF isActive THEN FALSE ELSE isLoading
    /\ rendered' = FALSE
    /\ lastEvent' = Event("initFail", Null)
    /\ UNCHANGED << isActive, framePending, animationSettings, pointerVars,
                    bufferVars, zoomVars, cursor, domVars, lastClick >>
    /\ UNCHANGED << sceneVars, resizeVars >>
    /\ UNCHANGED << motionVars, moodVars, restVars >>

\* What the effect's cleanup disposes of.
cleanupDisposes == {"geometry", "material", "renderer", "composer", "tfModel"}

\* Container listeners whose removeEventListener call names the function
\* that was added.
cleanupRemoves == {"mousemove", "click", "wheel"}

\* The effect's cleanup function (unmount).
Cleanup ==
    /\ isActive
    /\ isActive' = FALSE
    /\ resizeListeners' = resizeListeners \ {1}
    /\ containerListeners' = containerListeners \ cleanupRemoves
    /\ live' = live \ cleanupDisposes
    /\ rendered' = FALSE
    /\ lastEvent' = Event("unmount", Null)
    /\ UNCHANGED << initPc, framePending, isLoading, error, animationSettings,
                    pointerVars, bufferVars, zoomVars, cursor, renderCount,
                    lastClick >>
    /\ UNCHANGED << sceneVars, resizeVars >>
    /\ UNCHANGED << motionVars, moodVars, restVars >>

Next ==
    \/ Animate
    \/ OnMouseMove
    \/ OnClick
    \/ InitModelDone
    \/ InitCompileDone
    \/ InitFail
    \/ Cleanup

Spec == Init /\ [][Next]_vars

NextChrome ==
    \/ Animate
    \/ OnWheel
    \/ CursorTimeout
    \/ Render
    \/ InitModelDone
    \/ InitCompileDone
    \/ InitFail
    \/ Cleanup

SpecChrome == Init /\ [][NextChrome]_vars

(* ------------------------------------------------------------------ *)
(* The mount effect itself: from the first render to the state Init    *)
(* describes, or to an exception thrown while the scene is built.      *)
(* ------------------------------------------------------------------ *)

\* The showcase before its mount effect has run.
BeforeSetup ==
    /\ isActive = FALSE
    /\ initPc = "setup"
    /\ framePending = FALSE
    /\ isLoading = TRUE
    /\ error = FALSE
    /\ animationSettings = "calm"
    /\ currentMood = "calm"
    /\ moodDescription = description["calm"]
    /\ selectedNode = Null
    /\ hoveredNode = Null
    /\ nodePos = [i \in Nodes |-> 0]
    /\ positions = [i \in Nodes |-> 0]
    /\ colors = [i \in Nodes |-> Grey(0)]
    /\ colorSrc = [i \in Nodes |-> "none"]
    /\ sizes = [i \in Nodes |-> 0]
    /\ rendered = FALSE
    /\ lastEvent = Event("render", Null)
    /\ cameraDistance = InitialDistance
    /\ cursor = "unset"
    /\ cursorTimers = 0
    /\ containerListeners = {}
    /\ resizeListeners = {1}
    /\ renderCount = 1
    /\ live = {}
    /\ lastClick = [hit |-> Null, before |-> Null]
    /\ moodPresets = moodPresetsLiteral
    /\ background = Color(backgroundColor["calm"])
    /\ bloomStrength = bloomStrengthOf["calm"]
    /\ tweens = << >>
    /\ resizeCallbacks = [resize |-> 0, sidebar |-> 0]
    /\ fault = "none"
    /\ frame = 0
    /\ targets = [i \in Nodes |-> <<0, 0, 0>>]

\* The first render has run (state hooks, line 518) and the mount effect has
\* not: no closure, no buffers, no listeners on the container.
InitSetup == BeforeSetup /\ RestInit

\* The mount effect runs to its end: scene, camera, renderer, composer,
\* controls, listeners, node generation, p5, init().
SetupScene ==
    /\ initPc = "setup"
    /\ initPc' = "initModel"
    /\ isActive' = TRUE
    /\ colors' = [i \in Nodes |-> initialColor(i)]
    /\ colorSrc' = [i \in Nodes |-> "init"]
    /\ sizes' \in {[i \in Nodes |-> initialSize(r)] : r \in RandomSamples}
    /\ containerListeners' = ContainerEvents
    /\ live' = SetupResources
    /\ rendered' = FALSE
    /\ lastEvent' = Event("mount", Null)
    /\ UNCHANGED << framePending, isLoading, error, animationSettings,
                    pointerVars, nodePos, positions, zoomVars, cursor,
                    resizeListeners, renderCount, lastClick >>
    /\ UNCHANGED << sceneVars, resizeVars >>
    /\ UNCHANGED << motionVars, moodVars, restVars >>

\* new THREE.WebGLRenderer(...) throws (no graphics context): the statement
\* is in the effect body outside any try block, so the effect ends there; no
\* state setter is called, init() is never reached and no cleanup function
\* is returned.
SetupThrows ==
    /\ initPc = "setup"
    /\ initPc' = "setupThrew"
    /\ rendered' = FALSE
    /\ lastEvent' = Event("mountThrew", Null)
    /\ UNCHANGED << isActive, framePending, isLoading, error, animationSettings,
                    pointerVars, bufferVars, zoomVars, cursor, domVars,
                    lastClick >>
    /\ UNCHANGED << sceneVars, resizeVars >>
    /\ UNCHANGED << motionVars, moodVars, restVars >>

NextSetup ==
    \/ SetupScene
    \/ SetupThrows
    \/ Animate
    \/ OnMouseMove
    \/ InitModelDone
    \/ InitCompileDone
    \/ InitFail
    \/ Cleanup

SpecSetup == InitSetup /\ [][NextSetup]_vars

(* ------------------------------------------------------------------ *)
(* Preset selection: updateMoodSettings and the gsap tweens it starts  *)
(* ------------------------------------------------------------------ *)

\* ease: "power2.inOut" at progress p: 4p^3 below one half, 1 - 4(1-p)^3 above
easePower2InOut(p) ==
    IF p < 500
    THEN (4 * p * p * p) \div 1000000
    ELSE 1000 - (4 * (1000 - p) * (1000 - p) * (1000 - p)) \div 1000000

\* Variant: the tween covers twice the distance (an ease that overshoots).
interpolateOvershoot(start, end, ratio) == start + Mul(end - start, 2 * ratio)

\* The value a tween writes: start + (end - start) * ratio
interpolate(start, end, ratio) == start + Mul(end - start, ratio)

\* What the tweens of one call of updateMoodSettings write to.
Targets ==
    [background |-> background, bloomStrength |-> bloomStrength,
     colors |-> colors, src |-> colorSrc]

\* The tweens one call of updateMoodSettings creates (background, bloom and
\* one per node), as a single entry: they share start time, duration and
\* ease.  old is the preset that was active before the call.  gsap reads the
\* start values when the tween first renders.
newTween(mood, old) ==
    [to |-> mood, old |-> old, t |-> 0,
     startBloom |-> Null, startBackground |-> Grey(Null),
     startColors |-> [i \in Nodes |-> Grey(Null)]]

\* First render of a tween: record the start values of its targets.
startedTween(tw, tg) ==
    IF tw.t = 0
    THEN [tw EXCEPT !.startBloom = tg.bloomStrength,
                    !.startBackground = tg.background,
                    !.startColors = tg.colors]
    ELSE tw

\* One render of a started tween whose progress is tw.t ticks.
tweenWrites(tw, tg) ==
    LET ratio == easePower2InOut((tw.t * 1000) \div TweenSteps)
    IN  [tg EXCEPT
            !.bloomStrength =
                interpolate(tw.startBloom, bloomStrengthOf[tw.to], ratio),
            !.background =
                [c \in 1 .. 3 |->
                    interpolate(tw.startBackground[c],
                                Color(backgroundColor[tw.to])[c], ratio)],
            !.colors =
                [i \in Nodes |->
                    [c \in 1 .. 3 |->
                        interpolate(tw.startColors[i][c],
                                    baseColor(tw.to, i)[c], ratio)]],
            !.src = [i \in Nodes |-> "tween"]]

\* Progress of a tween after one more tick.
advanced(tw, tg) == [startedTween(tw, tg) EXCEPT !.t = tw.t + 1]

\* One tick of the gsap ticker: every tween that has not completed renders,
\* in the order the tweens were created (overwrite is off, so the tweens of an
\* earlier call keep writing, and a later tween writes after them).
RECURSIVE tickTargets(_, _, _)
tickTargets(tws, k, tg) ==
    IF k > Len(tws) THEN tg
    ELSE IF tws[k].t >= TweenSteps THEN tickTargets(tws, k + 1, tg)
    ELSE tickTargets(tws, k + 1, tweenWrites(advanced(tws[k], tg), tg))

RECURSIVE tickTweens(_, _, _)
tickTweens(tws, k, tg) ==
    IF k > Len(tws) THEN << >>
    ELSE IF tws[k].t >= TweenSteps
         THEN <<tws[k]>> \o tickTweens(tws, k + 1, tg)
         ELSE <<advanced(tws[k], tg)>>
                 \o tickTweens(tws, k + 1,
                               tweenWrites(advanced(tws[k], tg), tg))

\* Variant: the settings fall back to calm for every mood.
newSettingsAlwaysCalm(mood) == "calm"

\* newSettings = moodPresets[mood] || moodPresets.calm, as the key of the preset
newSettings(mood) == IF mood \in DOMAIN moodPresets THEN mood ELSE "calm"

\* The select's onChange: setCurrentMood(newMood); updateMoodSettings(newMood).
\* updateMoodSettings returns at once when the scene refs are null.
SelectMood ==
    /\ isActive
    /\ Len(tweens) < MaxSwitches
    /\ \E mood \in Presets \ {currentMood} :
          /\ currentMood' = mood
          /\ animationSettings' = newSettings(mood)
          /\ moodDescription' = moodPresets[newSettings(mood)].description
          /\ tweens' = Append(tweens,
                              newTween(newSettings(mood), animationSettings))
    /\ rendered' = FALSE
    /\ lastEvent' = Event("selectMood", Null)
    /\ UNCHANGED << lifecycleVars, pointerVars, bufferVars, zoomVars, cursor,
                    domVars, lastClick, moodPresets, background,
                    bloomStrength, resizeVars >>
    /\ UNCHANGED << motionVars, restVars >>

\* The gsap ticker fires.
TweenTick ==
    /\ \E k \in 1 .. Len(tweens) : tweens[k].t < TweenSteps
    /\ LET tg == tickTargets(tweens, 1, Targets)
       IN  /\ background' = tg.background
           /\ bloomStrength' = tg.bloomStrength
           /\ colors' = tg.colors
           /\ colorSrc' = tg.src
    /\ tweens' = tickTweens(tweens, 1, Targets)
    /\ rendered' = FALSE
    /\ lastEvent' = Event("tweenTick", Null)
    /\ UNCHANGED << lifecycleVars, animationSettings, pointerVars, nodePos,
                    positions, sizes, zoomVars, cursor, domVars, lastClick,
                    moodPresets, resizeVars >>
    /\ UNCHANGED << motionVars, moodVars, restVars >>

(* ------------------------------------------------------------------ *)
(* analyzeMood: dynamic settings derived from a preset                 *)
(* ------------------------------------------------------------------ *)

\* Words of an input string (input.toLowerCase().split(' ')).
Vocabulary ==
    {"very", "slightly", "quite", "mixed", "simple", "chaotic", "balanced",
     "happy", "sad", "energetic"}

MoodInputs == UNION {[1 .. n -> Vocabulary] : n \in 1 .. MaxWords}

intensityFactor(word) ==
    IF word \in {"very", "extremely"} THEN 1500
    ELSE IF word = "slightly" THEN 500
    ELSE IF word \in {"somewhat", "really", "quite"} THEN 800
    ELSE 1000

complexityFactor(word) ==
    IF word \in {"mixed", "confused"} THEN 1500
    ELSE IF word \in {"simple", "clear"} THEN 700
    ELSE 1000

symmetryFactor(word) ==
    IF word \in {"balanced", "harmonious"} THEN 1200
    ELSE IF word = "chaotic" THEN 500
    ELSE 1000

\* let x = 1.0; words.forEach(word => x *= factor(word))
RECURSIVE product(_, _, _)
product(factor(_), words, k) ==
    IF k > Len(words) THEN 1000
    ELSE Mul(product(factor, words, k + 1), factor(words[k]))

\* mood.includes(stem) for one of the stems, over the words of the input
includes(words, stems) == \E k \in 1 .. Len(words) : words[k] \in stems

\* The preset the if-chain of analyzeMood picks.
baseMoodOf(words) ==
    IF includes(words, {"happy"}) THEN "joyful"
    ELSE IF includes(words, {"sad"}) THEN "melancholic"
    ELSE IF includes(words, {"energetic"}) THEN "energetic"
    ELSE "calm"

\* params.key || fallback
orDefault(params, key, fallback) ==
    IF key \in DOMAIN params /\ params[key] # 0 THEN params[key] ELSE fallback

\* The fields analyzeMood computes on top of those of baseMood.
dynamicFields(baseMood, words) ==
    LET intensity == product(intensityFactor, words, 1)
        complexity == product(complexityFactor, words, 1)
        symmetry == product(symmetryFactor, words, 1)
        base == baseMood.patternParams
        over == [radius    |-> Mul(orDefault(base, "radius", 15000),
                                   Mul(symmetry, 500) + 500),
                 spread    |-> Mul(orDefault(base, "spread", 35000), complexity),
                 amplitude |-> Mul(orDefault(base, "amplitude", 10000), intensity),
                 frequency |-> Mul(orDefault(base, "frequency", 500), complexity)]
    IN  [baseMood EXCEPT
            !.animationSpeed = Mul(baseMood.animationSpeed, intensity),
            !.waveIntensity = Mul(baseMood.waveIntensity, intensity),
            !.patternParams =
                [k \in DOMAIN base \cup DOMAIN over |->
                    IF k \in DOMAIN over THEN over[k] ELSE base[k]]]

\* Variant: the computed fields are assigned to the preset object itself.
analyzeMoodInPlace(table, words) ==
    LET key == baseMoodOf(words)
        dyn == dynamicFields(table[key], words)
    IN  [table |-> [table EXCEPT ![key] = dyn], settings |-> dyn]

\* analyzeMood: the table after the call and the object returned.  The
\* object is built with spread syntax, so the preset is only read.
analyzeMood(table, words) ==
    LET key == baseMoodOf(words)
    IN  [table |-> table, settings |-> dynamicFields(table[key], words)]

AnalyzeMood ==
    /\ \E words \in MoodInputs :
          moodPresets' = analyzeMood(moodPresets, words).table
    /\ rendered' = FALSE
    /\ lastEvent' = Event("analyzeMood", Null)
    /\ UNCHANGED << lifecycleVars, animationSettings, pointerVars, bufferVars,
                    zoomVars, cursor, domVars, lastClick, background,
                    bloomStrength, tweens, resizeVars >>
    /\ UNCHANGED << motionVars, moodVars, restVars >>

NextTween ==
    \/ SelectMood
    \/ TweenTick
    \/ Cleanup

SpecTween == Init /\ [][NextTween]_vars

NextMood ==
    \/ SelectMood
    \/ TweenTick
    \/ AnalyzeMood
    \/ Animate
    \/ InitModelDone
    \/ InitCompileDone

SpecMood == Init /\ [][NextMood]_vars

\* The event handlers alone: pointer moves, clicks, wheel events and preset
\* selections, before any timer, ticker tick or frame runs.
NextHandlers ==
    \/ OnMouseMove
    \/ OnClick
    \/ OnWheel
    \/ SelectMood

SpecHandlers == Init /\ [][NextHandlers]_vars

\* Frames under every preset and every selection state.
NextFrames ==
    \/ Animate
    \/ OnMouseMove
    \/ OnClick
    \/ SelectMood
    \/ InitModelDone
    \/ InitCompileDone

SpecFrames == Init /\ [][NextFrames]_vars

(* ------------------------------------------------------------------ *)
(* Resize handling: handleResize, the sidebar effect and the callbacks *)
(* they defer with requestAnimationFrame                               *)
(* ------------------------------------------------------------------ *)

\* containerRef, cameraRef and rendererRef are set: between the end of the
\* mount effect and its cleanup.
refsSet == isActive

\* A 'resize' event on window: every registered handleResize runs, and each
\* one whose refs are set defers a callback.
Resize ==
    /\ resizeListeners # {}
    /\ resizeCallbacks.resize + Cardinality(resizeListeners) <= MaxCallbacks
    /\ resizeCallbacks' =
          IF refsSet
          THEN [resizeCallbacks EXCEPT
                   !.resize = @ + Cardinality(resizeListeners)]
          ELSE resizeCallbacks
    /\ fault' = "none"
    /\ rendered' = FALSE
    /\ lastEvent' = Event("resize", Null)
    /\ UNCHANGED << lifecycleVars, animationSettings, pointerVars, bufferVars,
                    zoomVars, cursor, domVars, lastClick, sceneVars >>
    /\ UNCHANGED << motionVars, moodVars, restVars >>

\* isSidebarOpen changes: the component body runs again (line 518 registers
\* this render's handleResize) and the effect on [isSidebarOpen] defers a
\* callback when the refs are set.
SidebarChange ==
    /\ isActive
    /\ renderCount < MaxRenders
    /\ resizeCallbacks.sidebar < MaxCallbacks
    /\ renderCount' = renderCount + 1
    /\ resizeListeners' = resizeListeners \cup {renderCount + 1}
    /\ resizeCallbacks' =
          IF refsSet THEN [resizeCallbacks EXCEPT !.sidebar = @ + 1]
          ELSE resizeCallbacks
    /\ fault' = "none"
    /\ rendered' = FALSE
    /\ lastEvent' = Event("sidebar", Null)
    /\ UNCHANGED << lifecycleVars, animationSettings, pointerVars, bufferVars,
                    zoomVars, cursor, containerListeners, live, lastClick,
                    sceneVars >>
    /\ UNCHANGED << motionVars, moodVars, restVars >>

\* What a deferred callback raises.  cameraRef.current!.aspect is the first
\* statement of both: a TypeError when cleanup has set the ref to null.  The
\* callback of handleResize goes on to nodes.forEach, and nodes is a constant
\* of the mount effect, not in scope in handleResize: a ReferenceError, raised
\* before any position is copied.
callbackFault(kind, refs) ==
    IF ~refs THEN "TypeError"
    ELSE IF kind = "resize" THEN "ReferenceError"
    ELSE "none"

\* The browser runs a deferred callback of handleResize or of the sidebar
\* effect.  It sets the camera aspect and the renderer and bloom sizes from
\* the container's size; no buffer is written.
ResizeCallback ==
    /\ \E kind \in {"resize", "sidebar"} :
          /\ resizeCallbacks[kind] > 0
          /\ resizeCallbacks' = [resizeCallbacks EXCEPT ![kind] = @ - 1]
          /\ fault' = callbackFault(kind, refsSet)
          /\ lastEvent' = Event(kind \o "Callback", Null)
    /\ rendered' = FALSE
    /\ UNCHANGED << lifecycleVars, animationSettings, pointerVars, bufferVars,
                    zoomVars, cursor, domVars, lastClick, sceneVars >>
    /\ UNCHANGED << motionVars, moodVars, restVars >>

NextResize ==
    \/ Resize
    \/ SidebarChange
    \/ ResizeCallback
    \/ Animate
    \/ InitModelDone
    \/ InitCompileDone
    \/ Cleanup

SpecResize == Init /\ [][NextResize]_vars

\* A preset selection made while no transition is running.
SelectMoodAtRest == SelectMood /\ tweens = << >>

\* Every kind of event that reaches the engine: frames, clicks, wheel events,
\* resizes with their deferred callbacks, and a preset selection.
NextNodes ==
    \/ Animate
    \/ OnClick
    \/ OnWheel
    \/ Resize
    \/ ResizeCallback
    \/ SelectMoodAtRest
    \/ InitModelDone
    \/ InitCompileDone

SpecNodes == Init /\ [][NextNodes]_vars

\* Pointer events while no preset transition has been started.
OnMouseMoveAtRest == OnMouseMove /\ tweens = << >>
OnClickAtRest == OnClick /\ tweens = << >>

\* Every writer of the colour buffer: frames, hover and selection, and a
\* preset selection with the ticks of its colour tweens.
NextColors ==
    \/ Animate
    \/ OnMouseMoveAtRest
    \/ OnClickAtRest
    \/ SelectMoodAtRest
    \/ TweenTick
    \/ InitModelDone
    \/ InitCompileDone

SpecColors == Init /\ [][NextColors]_vars

(* ------------------------------------------------------------------ *)
(* Numeric motion: the target of each pattern, easing and jitter.     *)
(* Here nodes[i].position and the position buffer hold <<x, y, z>> in *)
(* thousandths.                                                       *)
(* ------------------------------------------------------------------ *)

\* NaN or +-Infinity: what arithmetic on undefined or a division by zero
\* yields, and what every operation on it yields again.
NonFinite == -(2 ^ 30)

finite(v) == v # NonFinite

plus(a, b) == IF finite(a) /\ finite(b) THEN a + b ELSE NonFinite
minus(a, b) == IF finite(a) /\ finite(b) THEN a - b ELSE NonFinite
times(a, b) == IF finite(a) /\ finite(b) THEN Mul(a, b) ELSE NonFinite

\* a / b
over(a, b) ==
    IF finite(a) /\ finite(b) /\ b # 0 THEN (a * 1000) \div b ELSE NonFinite

\* The argument of a Math.sin or Math.cos call, built from time, the node
\* index and the operands given: kept only as finite or not.
angle(operands) ==
    IF \A k \in DOMAIN operands : finite(operands[k]) THEN 0 ELSE NonFinite

\* Math.sin(arg) and Math.cos(arg), with the sample the frame drew
sine(arg, sample) == IF finite(arg) THEN sample ELSE NonFinite
cosine(arg, sample) == IF finite(arg) THEN sample ELSE NonFinite

\* Math.acos(v): NaN outside [-1, 1]
arccos(v) ==
    IF finite(v) /\ v >= -1000 /\ v <= 1000 THEN 0 ELSE NonFinite

\* Variant: no preset defines wavelength.
paramWithoutWavelength(settings, key) ==
    LET p == moodPresets[settings].patternParams
    IN  IF key \in DOMAIN p /\ key # "wavelength" THEN p[key] ELSE NonFinite

\* settings.patternParams.key! : undefined, NaN in arithmetic, when the preset
\* does not define the key
param(settings, key) ==
    LET p == moodPresets[settings].patternParams
    IN  IF key \in DOMAIN p THEN p[key] ELSE NonFinite

\* The patterns animate's switch has a case for, and the patternParams keys
\* each case reads.
patternCases == {"flow", "explosion", "wave", "sphere"}

paramsRead(pat) ==
    CASE pat = "flow" ->
            {"flowSpeed", "frequency", "wavelength", "amplitude", "radius"}
      [] pat = "explosion" -> {"radius", "amplitude", "spread"}
      [] pat = "wave" -> {"frequency", "amplitude"}
      [] pat = "sphere" -> {"radius", "amplitude"}
      [] OTHER -> {}

\* The keys a case divides by.
divisors(pat) == IF pat = "flow" THEN {"wavelength"} ELSE {}

\* <<targetX, targetY, targetZ>> of node i, whose position is pos; s is the
\* frame's sample of the sines, c of the cosines.
targetPosition(settings, i, pos, s, c) ==
    LET pat == moodPresets[settings].pattern
        speed == moodPresets[settings].animationSpeed
        amplitude == param(settings, "amplitude")
    IN  CASE pat = "flow" ->
               LET flowTime == angle(<<param(settings, "flowSpeed")>>)
                   baseFreq == param(settings, "frequency")
                   waveLength == param(settings, "wavelength")
                   wave1 == sine(angle(<<baseFreq, over(pos[1], waveLength)>>), s)
                   wave2 == cosine(angle(<<baseFreq, over(pos[3], waveLength)>>), c)
                   wave3 == sine(angle(<<flowTime,
                                         over(plus(pos[1], pos[3]), waveLength)>>), s)
                   combinedWave ==
                       times(plus(plus(times(wave1, 400), times(wave2, 300)),
                                  times(wave3, 300)), amplitude)
                   flowRadius == param(settings, "radius")
                   flowAngle == angle(<<flowTime>>)
                   radialOffset == times(sine(angle(<<flowTime>>), s), 5000)
               IN  << plus(times(cosine(flowAngle, c),
                                 plus(flowRadius, radialOffset)),
                           times(sine(angle(<<flowTime>>), s), 5000)),
                      plus(combinedWave,
                           times(sine(angle(<<flowTime>>), s), 2000)),
                      plus(times(sine(flowAngle, s),
                                 plus(flowRadius, radialOffset)),
                           times(cosine(angle(<<flowTime>>), c), 5000)) >>
          [] pat = "explosion" ->
               LET explosionRadius ==
                       times(param(settings, "radius"),
                             plus(1000, times(sine(angle(<< >>), s), 300)))
                   explosionAngle == angle(<<speed>>)
                   verticalMotion == times(sine(angle(<< >>), s), amplitude)
                   orbitSpeed == angle(<<speed>>)
               IN  << times(times(cosine(explosionAngle, c), explosionRadius),
                            plus(1000, times(sine(orbitSpeed, s), 300))),
                      plus(verticalMotion,
                           times(times(sine(angle(<< >>), s),
                                       param(settings, "spread")), 300)),
                      times(times(sine(explosionAngle, s), explosionRadius),
                            plus(1000, times(cosine(orbitSpeed, c), 300))) >>
          [] pat = "wave" ->
               LET baseX == (i % 10) * 4000 - 20000
                   baseZ == (i \div 10) * 4000 - 20000
                   wavePhase ==
                       angle(<<times(baseX, param(settings, "frequency")),
                               speed>>)
                   primaryWave == times(sine(wavePhase, s), amplitude)
                   secondaryWave ==
                       times(times(cosine(wavePhase, c), amplitude), 500)
               IN  << plus(baseX, times(sine(angle(<< >>), s), 2000)),
                      plus(primaryWave, secondaryWave),
                      plus(baseZ, times(cosine(angle(<< >>), c), 2000)) >>
          [] pat = "sphere" ->
               LET phi == arccos(-1000 + (2000 * i) \div NodeCount)
                   theta == angle(<<phi, speed>>)
                   radius ==
                       times(param(settings, "radius"),
                             plus(1000, times(sine(angle(<< >>), s), 200)))
                   bounce == times(times(sine(angle(<< >>), s), amplitude), 300)
               IN  << times(times(radius, cosine(theta, c)), sine(phi, s)),
                      plus(times(times(radius, sine(theta, s)), sine(phi, s)),
                           bounce),
                      times(radius, cosine(phi, c)) >>
          [] OTHER -> <<0, 0, 0>>

\* getParticleEffect(settings): the fields the position update reads
getParticleEffect(settings) ==
    LET pat == moodPresets[settings].pattern
    IN  CASE pat = "explosion" ->
               [randomness |-> 400, lerpFactor |-> 150, pulseIntensity |-> 500]
          [] pat = "sphere" ->
               [randomness |-> 200, lerpFactor |-> 100, pulseIntensity |-> 300]
          [] pat = "wave" ->
               [randomness |-> 50, lerpFactor |-> 30, pulseIntensity |-> 150]
          [] OTHER ->
               [randomness |-> 10, lerpFactor |-> 15, pulseIntensity |-> 150]

\* const basePulse = Math.sin(time * pulseSpeed + i * 0.1) * pulseIntensity + 1.0,
\* for the value s of the sine.  The frame computes it and does not use it.
basePulse(settings, s) ==
    Mul(s, getParticleEffect(settings).pulseIntensity) + 1000

\* Variant: the random number is not centred on zero.
jitterUncentred(r, randomness) == Mul(r, randomness)

\* (Math.random() - 0.5) * randomness
jitter(r, randomness) == Mul(r - 500, randomness)

\* position += (target - position) * lerpFactor
eased(old, target, lerpFactor) ==
    plus(old, times(minus(target, old), lerpFactor))

\* One axis of node.position after a frame: eased, then jittered.
movedAxis(old, target, effect, r) ==
    plus(eased(old, target, effect.lerpFactor), jitter(r, effect.randomness))

\* The angle of node i on the helix in sixths of a turn, for a NodeCount that
\* divides 24: progress = strandIndex / (nodeCount / 2) * 2 pi * helixTurns,
\* plus pi on the second strand.
helixAngle(i) ==
    LET twiceStrandIndex ==
            IF isSecondStrand(i) THEN 2 * i - NodeCount ELSE 2 * i
    IN  ((12 * twiceStrandIndex) \div NodeCount
            + (IF isSecondStrand(i) THEN 3 ELSE 0)) % 6

cosSixths == <<1000, 500, -500, -1000, -500, 500>>
sinSixths == <<0, 866, 866, 0, -866, -866>>

\* heightProgress = strandIndex / (nodeCount / 2) * 2 - 1
heightProgress(i) ==
    LET twiceStrandIndex ==
            IF isSecondStrand(i) THEN 2 * i - NodeCount ELSE 2 * i
    IN  (2000 * twiceStrandIndex) \div NodeCount - 1000

\* The position the generation loop gives node i.
helixPosition(i) ==
    << Mul(cosSixths[helixAngle(i) + 1], helixRadius),
       Mul(heightProgress(i), helixHeight),
       Mul(sinSixths[helixAngle(i) + 1], helixRadius) >>

\* init() has loaded and compiled the model and is about to call animate().
InitMotion ==
    /\ isActive = TRUE
    /\ initPc = "compile"
    /\ framePending = FALSE
    /\ isLoading = TRUE
    /\ error = FALSE
    /\ animationSettings = "calm"
    /\ currentMood = "calm"
    /\ moodDescription = description["calm"]
    /\ selectedNode = Null
    /\ hoveredNode = Null
    /\ nodePos = [i \in Nodes |-> helixPosition(i)]
    /\ positions = [i \in Nodes |-> helixPosition(i)]
    /\ colors = [i \in Nodes |-> initialColor(i)]
    /\ colorSrc = [i \in Nodes |-> "init"]
    /\ sizes \in {[i \in Nodes |-> initialSize(r)] : r \in RandomSamples}
    /\ rendered = FALSE
    /\ lastEvent = Event("initModel", Null)
    /\ cameraDistance = InitialDistance
    /\ cursor = "unset"
    /\ cursorTimers = 0
    /\ containerListeners = ContainerEvents
    /\ resizeListeners = {1}
    /\ renderCount = 1
    /\ live = SetupResources
    /\ lastClick = [hit |-> Null, before |-> Null]
    /\ moodPresets = moodPresetsLiteral
    /\ background = Color(backgroundColor["calm"])
    /\ bloomStrength = bloomStrengthOf["calm"]
    /\ tweens = << >>
    /\ resizeCallbacks = [resize |-> 0, sidebar |-> 0]
    /\ fault = "none"
    /\ frame = 0
    /\ targets = [i \in Nodes |-> <<0, 0, 0>>]
    /\ RestInit

\* One invocation of animate() with the positions computed: every node's
\* target from the active preset's pattern, easing and jitter per axis, the
\* colours, the copy into the position buffer, the render.  The sines, the
\* cosines and Math.random() are each sampled once per frame.  The first
\* invocation is the call in init(), which then clears the loading state.
AnimateMotion ==
    /\ framePending \/ initPc = "compile"
    /\ frameRuns(isActive)
    /\ frame < MaxFrames
    /\ \E s \in SinSamples, c \in SinSamples, r \in RandomSamples :
          LET effect == getParticleEffect(animationSettings)
              tg == [i \in Nodes |->
                        targetPosition(animationSettings, i, nodePos[i], s, c)]
          IN  /\ targets' = tg
              /\ nodePos' = [i \in Nodes |->
                               [a \in 1 .. 3 |->
                                   movedAxis(nodePos[i][a], tg[i][a], effect, r)]]
              /\ positions' = nodePos'
              /\ colors' = [i \in Nodes |->
                              updateParticleColors(i, animationSettings,
                                  selectedNode, hoveredNode, s, s, s, s)]
              /\ colorSrc' = [i \in Nodes |->
                              colorBranch(i, selectedNode, hoveredNode)]
    /\ frame' = frame + 1
    /\ framePending' = TRUE
    /\ initPc' = "started"
    /\ isLoading' = IF initPc = "compile" THEN FALSE ELSE isLoading
    /\ rendered' = TRUE
    /\ lastEvent' = Event("frame", Null)
    /\ UNCHANGED << isActive, error, animationSettings,
                    pointerVars, sizes, cameraDistance, cursor, cursorTimers,
                    domVars, lastClick, sceneVars, resizeVars, moodVars,
                    restVars >>

NextMotion ==
    \/ AnimateMotion
    \/ SelectMood

SpecMotion == InitMotion /\ [][NextMotion]_vars

(* ------------------------------------------------------------------ *)
(* The generation loop, one iteration per step                        *)
(* ------------------------------------------------------------------ *)

InitHelix ==
    /\ BeforeSetup
    /\ helixCount \in HelixCounts
    /\ nodes = << >>
    /\ OthersInit

\* for (let i = 0; i < nodeCount; i++) { ... nodes.push({...}) }
GenerateNode ==
    /\ Len(nodes) < helixCount
    /\ nodes' = Append(nodes, generatedNode(Len(nodes), helixCount))
    /\ UNCHANGED << helixCount, notHelix >>

NextHelix == GenerateNode

SpecHelix == InitHelix /\ [][NextHelix]_vars

(* ------------------------------------------------------------------ *)
(* BackgroundPattern (components/BackgroundPattern.tsx)               *)
(* ------------------------------------------------------------------ *)

\* One invocation of its animate(): requestAnimationFrame(animate), then every
\* triangle floats by Math.sin(Date.now() * 0.001 + i) * 0.02, then
\* renderer.render(scene, camera).  Nothing in it tests whether the component
\* is still mounted.
patternAnimate(samples) ==
    /\ patternFramePending' = TRUE
    /\ patternFrames' = patternFrames + 1
    /\ triangleY' = [t \in Triangles |-> triangleY[t] + Mul(samples[t], 20)]
    /\ patternRender' =
          IF "renderer" \in patternLive THEN "live" ELSE "disposed"

\* The mount effect: renderer, canvas, geometry, the triangles at random
\* positions, the resize listener, and the first call of animate().
PatternMount ==
    /\ patternPhase = "initial"
    /\ patternPhase' = "mounted"
    /\ patternLive' = PatternResources
    /\ \E size \in ContainerSizes : rendererSize' = size
    /\ \E r \in [Triangles -> RandomSamples], samples \in [Triangles -> SinSamples] :
          /\ patternFramePending' = TRUE
          /\ patternFrames' = 1
          /\ triangleY' = [t \in Triangles |->
                             (r[t] - 500) * 100 + Mul(samples[t], 20)]
          /\ patternRender' = "live"
    /\ UNCHANGED notPattern

\* The browser runs the scheduled callback of the pattern's loop.
PatternAnimate ==
    /\ patternFramePending
    /\ patternFrames < MaxPatternFrames
    /\ \E samples \in [Triangles -> SinSamples] : patternAnimate(samples)
    /\ UNCHANGED << patternPhase, patternLive, rendererSize, notPattern >>

\* A 'resize' event on window while handleResize is registered.
PatternResize ==
    /\ "resizeListener" \in patternLive
    /\ \E size \in ContainerSizes : rendererSize' = size
    /\ patternRender' = "none"
    /\ UNCHANGED << patternPhase, patternFramePending, patternLive,
                    patternFrames, triangleY, notPattern >>

\* The cleanup of the mount effect: the listener removed, renderer, geometry
\* and materials disposed, the canvas removed.  The pending frame is not
\* cancelled.
PatternCleanup ==
    /\ patternPhase = "mounted"
    /\ patternPhase' = "cleaned"
    /\ patternLive' = {}
    /\ patternRender' = "none"
    /\ UNCHANGED << patternFramePending, patternFrames, triangleY,
                    rendererSize, notPattern >>

NextPattern ==
    \/ PatternMount
    \/ PatternAnimate
    \/ PatternResize
    \/ PatternCleanup

SpecPattern == InitSetup /\ [][NextPattern]_vars

(* ------------------------------------------------------------------ *)
(* WavingHand (components/ProfileSidebar.tsx)                         *)
(* ------------------------------------------------------------------ *)

\* The React state and timers of the hand, as one record the effect works on.
Hand ==
    [emoji |-> emoji, showToast |-> showToast, toastMessage |-> toastMessage,
     timers |-> handTimers, cleanup |-> effectCleanup]

\* The cleanup function the last run of the isOpen effect returned.
runCleanup(h) ==
    CASE h.cleanup = "open" ->
            [h EXCEPT !.timers.main = Null, !.showToast = FALSE,
                      !.cleanup = "none"]
      [] h.cleanup = "close" ->
            [h EXCEPT !.timers.hide = Null, !.cleanup = "none"]
      [] OTHER -> h

\* The body of the effect on [isOpen, hasShownInitialMessage], run in a
\* render where the toast message is h.toastMessage.
effectBody(h, open, shown, t) ==
    IF ~shown THEN h
    ELSE IF open
    THEN [h EXCEPT !.toastMessage = NiceToMeetYou, !.showToast = TRUE,
                   !.timers.main = t + mainDelay, !.cleanup = "open"]
    ELSE IF h.toastMessage # Hey /\ h.toastMessage # ClickPrompt
    THEN [h EXCEPT !.emoji = "wave", !.toastMessage = SeeYouLater,
                   !.showToast = TRUE, !.timers.hide = t + hideDelay,
                   !.cleanup = "close"]
    ELSE h

\* A dependency of the effect changed: the old cleanup, then the body.
rerunEffect(h, open, shown, t) == effectBody(runCleanup(h), open, shown, t)

StoreHand(h) ==
    /\ emoji' = h.emoji
    /\ showToast' = h.showToast
    /\ toastMessage' = h.toastMessage
    /\ handTimers' = h.timers
    /\ effectCleanup' = h.cleanup

\* Deadlines of all pending timers.
Deadlines ==
    {handTimers[k] : k \in {j \in DOMAIN handTimers : handTimers[j] # Null}}
        \cup wavingTimers

\* Time passes while no timer is due.
Tick ==
    /\ now < MaxTime
    /\ \A d \in Deadlines : d > now
    /\ now' = now + 1
    /\ handEvent' = "tick"
    /\ UNCHANGED << handMounted, sidebarIsOpen, isWaving, emoji, showToast,
                    toastMessage, hasShownInitialMessage, handTimers,
                    wavingTimers, effectCleanup, handClicks, notHand >>

\* The effects after the first render: heyTimer is set; the isOpen effect
\* returns at once because hasShownInitialMessage is false.
HandMount ==
    /\ ~handMounted
    /\ handEvent = "render"
    /\ handMounted' = TRUE
    /\ handTimers' = [handTimers EXCEPT !.hey = now + heyDelay]
    /\ handEvent' = "mount"
    /\ UNCHANGED << sidebarIsOpen, isWaving, emoji, showToast, toastMessage,
                    hasShownInitialMessage, wavingTimers, effectCleanup, now,
                    handClicks, notHand >>

\* heyTimer fires: "Hey!" is shown, promptTimer is set (the function the
\* callback returns is dropped by setTimeout), and the isOpen effect runs
\* again because hasShownInitialMessage changed.
HeyTimer ==
    /\ handTimers.hey # Null
    /\ handTimers.hey <= now
    /\ hasShownInitialMessage' = TRUE
    /\ StoreHand(rerunEffect(
          [Hand EXCEPT !.toastMessage = Hey, !.showToast = TRUE,
                       !.timers.hey = Null,
                       !.timers.prompt = now + promptDelay],
          sidebarIsOpen, TRUE, now))
    /\ handEvent' = "heyTimer"
    /\ UNCHANGED << handMounted, sidebarIsOpen, isWaving, wavingTimers, now,
                    handClicks, notHand >>

\* promptTimer fires.  After unmount its state updates are dropped.
PromptTimer ==
    /\ handTimers.prompt # Null
    /\ handTimers.prompt <= now
    /\ handTimers' = [handTimers EXCEPT !.prompt = Null]
    /\ IF handMounted
       THEN toastMessage' = ClickPrompt /\ showToast' = TRUE
       ELSE UNCHANGED << toastMessage, showToast >>
    /\ handEvent' = "promptTimer"
    /\ UNCHANGED << handMounted, sidebarIsOpen, isWaving, emoji,
                    hasShownInitialMessage, wavingTimers, effectCleanup, now,
                    handClicks, notHand >>

\* mainTimer of the open branch fires.
MainTimer ==
    /\ handTimers.main # Null
    /\ handTimers.main <= now
    /\ handTimers' = [handTimers EXCEPT !.main = Null]
    /\ emoji' = "thumbsUp"
    /\ toastMessage' = Psst
    /\ handEvent' = "mainTimer"
    /\ UNCHANGED << handMounted, sidebarIsOpen, isWaving, showToast,
                    hasShownInitialMessage, wavingTimers, effectCleanup, now,
                    handClicks, notHand >>

\* hideTimer of the close branch fires.
HideTimer ==
    /\ handTimers.hide # Null
    /\ handTimers.hide <= now
    /\ handTimers' = [handTimers EXCEPT !.hide = Null]
    /\ showToast' = FALSE
    /\ handEvent' = "hideTimer"
    /\ UNCHANGED << handMounted, sidebarIsOpen, isWaving, emoji, toastMessage,
                    hasShownInitialMessage, wavingTimers, effectCleanup, now,
                    handClicks, notHand >>

\* setTimeout(() => setIsWaving(false), 1500) of handleSidebarToggle fires.
WavingTimer ==
    /\ \E d \in wavingTimers :
          /\ d <= now
          /\ wavingTimers' = wavingTimers \ {d}
    /\ isWaving' = IF handMounted THEN FALSE ELSE isWaving
    /\ handEvent' = "wavingTimer"
    /\ UNCHANGED << handMounted, sidebarIsOpen, emoji, showToast, toastMessage,
                    hasShownInitialMessage, handTimers, effectCleanup, now,
                    handClicks, notHand >>

\* A click on the hand: handleSidebarToggle, then the isOpen effect.
HandClick ==
    /\ handMounted
    /\ handClicks < MaxHandClicks
    /\ handClicks' = handClicks + 1
    /\ isWaving' = TRUE
    /\ wavingTimers' = wavingTimers \cup {now + wavingDelay}
    /\ sidebarIsOpen' = ~sidebarIsOpen
    /\ StoreHand(rerunEffect(Hand, ~sidebarIsOpen, hasShownInitialMessage, now))
    /\ handEvent' = "click"
    /\ UNCHANGED << handMounted, hasShownInitialMessage, now, notHand >>

\* ProfileSidebar is unmounted: the cleanups of both effects of the hand.
HandUnmount ==
    /\ handMounted
    /\ handMounted' = FALSE
    /\ LET h == runCleanup(Hand)
       IN  /\ handTimers' = [h.timers EXCEPT !.hey = Null]
           /\ effectCleanup' = h.cleanup
    /\ handEvent' = "unmount"
    /\ UNCHANGED << sidebarIsOpen, isWaving, emoji, showToast, toastMessage,
                    hasShownInitialMessage, wavingTimers, now, handClicks,
                    notHand >>

NextHand ==
    \/ Tick
    \/ HandMount
    \/ HeyTimer
    \/ PromptTimer
    \/ MainTimer
    \/ HideTimer
    \/ WavingTimer
    \/ HandClick
    \/ HandUnmount

SpecHand == InitSetup /\ [][NextHand]_vars

(* ------------------------------------------------------------------ *)
(* Router: Navbar.tsx and NavigationIndicator (NavigationEffects.tsx) *)
(* ------------------------------------------------------------------ *)

\* clearTimeout as the cleanup of NavigationIndicator's effect calls it.
clearTimeoutIgnored(timers, t) == timers

clearTimeout(timers, t) == timers \ {t}

\* Navbar's effect on [location]: setIsOpen(false).
locationEffectKeeps(open) == open

locationEffect(open) == FALSE

\* NavigationIndicator's effect on [location]: the cleanup of the run before
\* it, if there was one, then setIsNavigating(true) and a new timeout.
IndicatorEffect ==
    /\ isNavigating' = TRUE
    /\ timer' = clock + navDelay
    /\ pendingTimers' =
            (IF timer = Null THEN pendingTimers
             ELSE clearTimeout(pendingTimers, timer)) \cup {clock + navDelay}
    /\ lastRouteChange' = clock

\* The effects of both components after a render with a new location.
LocationEffects ==
    /\ isOpen' = locationEffect(isOpen)
    /\ IndicatorEffect

\* Time passes while no timeout is due; the clock starts with the effects of
\* App's first render.
NavTick ==
    /\ appMounted
    /\ clock < MaxNavTime
    /\ \A d \in pendingTimers : d > clock
    /\ clock' = clock + 1
    /\ navEvent' = "tick"
    /\ UNCHANGED << appMounted, location, isOpen, isNavigating, pendingTimers,
                    timer, lastRouteChange, presses, notRouter >>

\* The effects after App's first render.
AppMount ==
    /\ ~appMounted
    /\ appMounted' = TRUE
    /\ LocationEffects
    /\ navEvent' = "mount"
    /\ UNCHANGED << location, clock, presses, notRouter >>

\* The mobile menu button: setIsOpen(!isOpen).
MenuButton ==
    /\ appMounted
    /\ presses < MaxPresses
    /\ presses' = presses + 1
    /\ isOpen' = ~isOpen
    /\ navEvent' = "button"
    /\ UNCHANGED << appMounted, location, isNavigating, pendingTimers, timer,
                    clock, lastRouteChange, notRouter >>

\* A <Link to={path}> is pressed: the router publishes a new location
\* object and the effects on [location] run.  The time left must allow the
\* new timeout to come due.
Navigate(path, from) ==
    /\ appMounted
    /\ location.key < MaxNavigations
    /\ clock + navDelay <= MaxNavTime
    /\ location' = [pathname |-> path, key |-> location.key + 1]
    /\ LocationEffects
    /\ navEvent' = from
    /\ UNCHANGED << appMounted, clock, presses, notRouter >>

\* A link of the mobile menu, which is rendered only while isOpen.
MobileLink ==
    /\ isOpen
    /\ \E path \in navLinks : Navigate(path, "mobileLink")

\* The logo or a link of the desktop navigation.
DesktopLink == \E path \in navLinks : Navigate(path, "desktopLink")

\* A timeout of NavigationIndicator comes due: setIsNavigating(false).
IndicatorTimer ==
    /\ \E d \in pendingTimers :
          /\ d <= clock
          /\ pendingTimers' = pendingTimers \ {d}
    /\ isNavigating' = FALSE
    /\ navEvent' = "timer"
    /\ UNCHANGED << appMounted, location, isOpen, timer, clock,
                    lastRouteChange, presses, notRouter >>

NextRouter ==
    \/ NavTick
    \/ AppMount
    \/ MenuButton
    \/ MobileLink
    \/ DesktopLink
    \/ IndicatorTimer

SpecRouter == InitSetup /\ [][NextRouter]_vars

\* Timeouts that are due run, and time does not stop.
SpecRouterFair ==
    SpecRouter /\ WF_vars(NavTick) /\ WF_vars(IndicatorTimer)

(* ------------------------------------------------------------------ *)
(* Claims                                                              *)
(* ------------------------------------------------------------------ *)

\* C1: from a state in which node i is not the selected node, two consecutive
\* clicks that hit node i, with frames and pointer moves in between but no
\* other click, leave nothing selected.  Stated of the second click: the
\* click before it hit the same node, which was not selected then.
C1_ClickToggle ==
    [][(/\ lastEvent'.type = "click"
        /\ lastEvent'.hit # Null
        /\ lastClick.hit = lastEvent'.hit
        /\ lastClick.before # lastClick.hit) => selectedNode' = Null]_vars

\* C1 witness: both clicks have happened, another node was selected before
\* the first of them, and pointer moves and frames ran in between.
C1_Witness ==
    /\ lastEvent.type = "click"
    /\ lastEvent.hit # Null
    /\ lastClick.hit = lastEvent.hit
    /\ lastClick.before = lastEvent.hit
    /\ hoveredNode \notin {Null, lastEvent.hit}
    /\ colorSrc[hoveredNode] = "frameHovered"
    /\ selectedNode = Null

\* C2: the selection is nothing or one node index in [0, N); a click that hits
\* node j while a different node i is selected selects j, and a click that
\* hits no node leaves the selection as it was.
C2_SingleSelection ==
    /\ selectedNode \in Nodes \cup {Null}
    /\ lastClick.hit = Null => selectedNode = lastClick.before
    /\ (lastClick.hit # Null /\ lastClick.before \notin {Null, lastClick.hit})
          => selectedNode = lastClick.hit

\* C2 witness: node j was clicked while another node was selected, and j is
\* now the selection.
C2_Witness ==
    /\ lastClick.hit # Null
    /\ lastClick.before \notin {Null, lastClick.hit}
    /\ selectedNode = lastClick.hit

\* C3: whenever a node stops being selected, or stops being hovered while it
\* is not the selected node, the handler writes that node's idle palette
\* colour (the active preset's particleColors[i mod paletteLength]) into the
\* node's colour entries.  Stated of the entries resetNodeColor wrote last.
C3_ResetRestoresPalette ==
    \A i \in Nodes :
        colorSrc[i] = "reset" => colors[i] = baseColor(animationSettings, i)

\* C4: a node holds the enlarged size only while it is the selected node.
C4_EnlargedOnlyWhileSelected ==
    \A i \in Nodes : sizes[i] = SelectedSize => selectedNode = i

\* C5: starting from the initial camera distance, after any sequence of wheel
\* events of any sign and magnitude, interleaved with frames, the camera's
\* distance to the look-at target stays within [minDistance, maxDistance].
C5_ZoomClamp == minDistance <= cameraDistance /\ cameraDistance <= maxDistance

\* C5 witness: a wheel event was clamped at the lower limit (minDistance is
\* not a multiple of the zoom step away from the initial distance).
C5_Witness == lastEvent.type = "wheel" /\ cameraDistance = minDistance

\* C6 as claimed: after a pointer move that hits node i, hoveredNode = i and,
\* if i is not the selected node, its colour entries differ from its idle
\* palette colour; after a pointer move that hits nothing hoveredNode is null.
C6_HoverTracking ==
    lastEvent.type = "mousemove" =>
        IF lastEvent.hit = Null
        THEN hoveredNode = Null
        ELSE /\ hoveredNode = lastEvent.hit
             /\ lastEvent.hit # selectedNode =>
                    colors[lastEvent.hit]
                        # baseColor(animationSettings, lastEvent.hit)

\* C6 amended: after a pointer move that hits node i, hoveredNode = i and, if
\* i is not the selected node and was not already the hovered node, its
\* colour entries are the hover grey, which is the idle palette colour of no
\* preset; after a pointer move that hits nothing hoveredNode is null.
C6_HoverTrackingAmended ==
    [][lastEvent'.type = "mousemove" =>
        IF lastEvent'.hit = Null
        THEN hoveredNode' = Null
        ELSE /\ hoveredNode' = lastEvent'.hit
             /\ (lastEvent'.hit # selectedNode' /\ lastEvent'.hit # hoveredNode) =>
                    \A p \in Presets :
                        colors'[lastEvent'.hit] # baseColor(p, lastEvent'.hit)]_vars

\* C6 witness: a pointer move has just put the hover on an unselected node
\* that a frame had coloured before.
C6_Witness ==
    /\ lastEvent.type = "mousemove"
    /\ lastEvent.hit # Null
    /\ lastEvent.hit # selectedNode
    /\ colorSrc[lastEvent.hit] = "hover"
    /\ \E i \in Nodes : colorSrc[i] \in {"frameIdle", "frameSelected"}

\* C7: in every state reached by pointer moves, clicks and frames, the
\* selected node's colour entries are the near-white selected colour (white
\* from the click, or the grey pulse in [0.6, 1.0] from the frame) and were
\* not written by a hover statement, also when the selected node is the
\* hovered node; a frame colours by the priority selected > hovered > idle.
C7_SelectedOverridesHover ==
    /\ selectedNode # Null =>
          /\ colorSrc[selectedNode] \in {"select", "frameSelected"}
          /\ \E v \in 600 .. 1000 : colors[selectedNode] = Grey(v)
    /\ rendered =>
          \A i \in Nodes :
              /\ colorSrc[i] = "frameSelected" <=> i = selectedNode
              /\ colorSrc[i] = "frameHovered"
                    <=> (i = hoveredNode /\ i # selectedNode)
              /\ colorSrc[i] = "frameIdle"
                    <=> (i # hoveredNode /\ i # selectedNode)

\* C7 witness: a frame has just coloured a node that is both selected and
\* hovered.
C7_Witness ==
    /\ rendered
    /\ selectedNode # Null
    /\ hoveredNode = selectedNode

\* C8: once the liveness flag is false, an invocation of the frame callback
\* (a pending frame, or the call init makes) leaves the node array and the
\* position, colour and size buffers alone, issues no render call and
\* schedules no frame.
C8_TeardownStopsLoop ==
    [][(~isActive /\ lastEvent'.type \in {"frame", "initCompile"}) =>
          /\ UNCHANGED bufferVars
          /\ ~rendered'
          /\ ~framePending']_vars

\* C8 witness: a frame that was pending at unmount has run.
C8_Witness == ~isActive /\ lastEvent.type = "frame"

\* C9: after unmount no listener the visualization registered remains: the
\* container's mousemove, click, wheel and contextmenu listeners and every
\* window resize listener added by any render have been removed.
C9_ListenersRemoved ==
    ~isActive => containerListeners = {} /\ resizeListeners = {}

\* C10: when the visualization is unmounted every resource its setup created
\* is released, also when the unmount comes before init() has completed.
C10_ResourcesReleased == ~isActive => live = {}

\* C11: when initialization has failed, because the renderer could not be
\* created or because model initialization threw, the error state is set and
\* the loading state is cleared (while the component is mounted), no frame is
\* scheduled and no frame has ever moved a node.
C11_InitFailureSurfaced ==
    /\ (initPc = "setupThrew" \/ (initPc = "failed" /\ isActive))
          => (error /\ ~isLoading)
    /\ initPc \in {"setupThrew", "failed"}
          => (~framePending /\ \A i \in Nodes : nodePos[i] = 0)

Newest == tweens[Len(tweens)]
InWindow == tweens # << >> /\ Newest.t \in 1 .. (TweenSteps - 1)

Within(v, a, b) == Min(a, b) <= v /\ v <= Max(a, b)
StrictlyBetween(v, a, b) == IF a = b THEN v = a ELSE Min(a, b) < v /\ v < Max(a, b)
Dist(a, b) == IF a < b THEN b - a ELSE a - b

\* A tick moves the bloom strength and every background channel no further
\* from the values of the preset selected last.
TickApproaches ==
    /\ Dist(bloomStrength', bloomStrengthOf[Newest.to])
          <= Dist(bloomStrength, bloomStrengthOf[Newest.to])
    /\ \A c \in 1 .. 3 :
          Dist(background'[c], Color(backgroundColor[Newest.to])[c])
             <= Dist(background[c], Color(backgroundColor[Newest.to])[c])

\* C13 as claimed: at every sample inside the transition window of a preset
\* switch, also of one made while an earlier transition was running, the bloom
\* strength and each background channel lie strictly between the old preset's
\* and the new preset's values, and every tick after the switch moves them
\* toward the new values.
C13_PresetInterpolation ==
    /\ [](InWindow =>
            /\ StrictlyBetween(bloomStrength, bloomStrengthOf[Newest.old],
                               bloomStrengthOf[Newest.to])
            /\ \A c \in 1 .. 3 :
                  StrictlyBetween(background[c],
                                  Color(backgroundColor[Newest.old])[c],
                                  Color(backgroundColor[Newest.to])[c]))
    /\ [][(lastEvent'.type = "tweenTick" /\ tweens # << >>
             /\ Newest.t < TweenSteps) => TickApproaches]_vars

\* C13 amended: inside the transition window the bloom strength and each
\* background channel lie between the value they had when the switch's tween
\* first rendered and the new preset's value (bounds included at the
\* resolution of the arithmetic), and every tick after that first render moves
\* them no further from the new value.
C13_PresetInterpolationAmended ==
    /\ [](InWindow =>
            /\ Within(bloomStrength, Newest.startBloom,
                      bloomStrengthOf[Newest.to])
            /\ \A c \in 1 .. 3 :
                  Within(background[c], Newest.startBackground[c],
                         Color(backgroundColor[Newest.to])[c]))
    /\ [][(lastEvent'.type = "tweenTick" /\ tweens # << >>
             /\ Newest.t \in 1 .. (TweenSteps - 1)) => TickApproaches]_vars

\* C13 witness: a sample inside the window of a switch that interrupted an
\* earlier transition, with the bloom strength outside the interval of the
\* two presets' values.
C13_Witness ==
    /\ InWindow
    /\ Len(tweens) >= 2
    /\ ~Within(bloomStrength, bloomStrengthOf[Newest.old],
               bloomStrengthOf[Newest.to])

\* The colours a frame can write for an idle node i under preset p.
FrameIdleColors(p, i) ==
    {updateParticleColors(i, p, Null, Null, s5, s3, sd, su) :
        s5 \in SinSamples, s3 \in SinSamples,
        sd \in SinSamples, su \in SinSamples}

\* C14: while the transition of a preset switch is under way, a frame does not
\* put an unselected, unhovered node's colour entries at a value computed
\* from the new preset's palette: the entries keep approaching the new palette
\* colour in the steps of the transition.
C14_ColorTransition ==
    [][(/\ lastEvent'.type \in {"frame", "initCompile"}
        /\ rendered'
        /\ tweens # << >>
        /\ Newest.t < TweenSteps)
          => \A i \in Nodes \ {selectedNode, hoveredNode} :
                colors'[i] \notin FrameIdleColors(animationSettings, i)]_vars

\* C15: every entry of the preset table, nested particleColors and
\* patternParams included, equals its value at startup.
C15_PresetsImmutable == moodPresets = moodPresetsLiteral

\* C15 witness: analyzeMood has just been called after a preset selection
\* whose colour transition completed and after a frame under the new preset.
C15_Witness ==
    /\ lastEvent.type = "analyzeMood"
    /\ animationSettings # "calm"
    /\ tweens # << >>
    /\ tweens[1].t = TweenSteps
    /\ \E i \in Nodes : colorSrc[i] = "frameIdle"

\* C16: a step of a pointer-move, click or wheel handler, or of the preset
\* selection handler, leaves the node array and the position, colour and
\* size buffers as they were.
C16_HandlersLeaveBuffers ==
    [][lastEvent'.type \in {"mousemove", "click", "wheel", "selectMood"}
          => UNCHANGED << nodePos, positions, colors, sizes >>]_vars

\* C17: one invocation of the frame callback, under any active preset and any
\* selection and hover, leaves selectedNode and hoveredNode as they were.
C17_FrameLeavesSelection ==
    [][lastEvent'.type \in {"frame", "initCompile"}
          => UNCHANGED << selectedNode, hoveredNode >>]_vars

\* C17 witness: a frame has run (and coloured the nodes) under a preset other
\* than the initial one while one node was selected and another hovered.
C17_Witness ==
    /\ lastEvent.type = "frame"
    /\ rendered
    /\ animationSettings # "calm"
    /\ selectedNode # Null
    /\ hoveredNode \notin {Null, selectedNode}

\* C18: a callback that runs after unmount (a deferred callback of the resize
\* handler or of the sidebar effect, a pending frame) raises no exception
\* from a cleared reference and leaves the engine state alone.
C18_StaleCallbacksSafe ==
    [][(/\ ~isActive
        /\ lastEvent'.type \in {"resizeCallback", "sidebarCallback", "frame"})
          => /\ fault' = "none"
             /\ UNCHANGED << bufferVars, cameraDistance, background,
                             bloomStrength >>]_vars

\* C19: every preset's pattern has a case in the frame's switch and the preset
\* defines every parameter the case reads, with no zero divisor; and after any
\* frames under any preset switches every component of every node position,
\* of the position buffer and of the targets is finite.
C19_FinitePositions ==
    /\ \A m \in Presets :
          /\ moodPresets[m].pattern \in patternCases
          /\ paramsRead(moodPresets[m].pattern)
                \subseteq DOMAIN moodPresets[m].patternParams
          /\ \A key \in divisors(moodPresets[m].pattern) :
                moodPresets[m].patternParams[key] # 0
    /\ \A i \in Nodes, a \in 1 .. 3 :
          /\ finite(nodePos[i][a])
          /\ finite(positions[i][a])
          /\ finite(targets[i][a])

\* C19 witness: MaxFrames frames have run, two preset switches among them,
\* and the nodes have left the helix.
C19_Witness ==
    /\ frame = MaxFrames
    /\ Len(tweens) = 2
    /\ lastEvent.type = "frame"
    /\ \A i \in Nodes : nodePos[i] # helixPosition(i)

\* C20: in one frame every axis of every node moves by at most
\* |target - old| * lerpFactor + randomness, and the jitter added to the eased
\* position lies within +/- randomness / 2, for the lerpFactor and randomness
\* of the active preset's pattern.
C20_DisplacementBound ==
    [][lastEvent'.type = "frame" =>
          LET effect == getParticleEffect(animationSettings)
          IN  \A i \in Nodes, a \in 1 .. 3 :
                 LET old == nodePos[i][a]
                     new == nodePos'[i][a]
                     target == targets'[i][a]
                     added == new - (old + Mul(target - old, effect.lerpFactor))
                 IN  /\ Dist(new, old)
                          <= Mul(Dist(target, old), effect.lerpFactor)
                                + effect.randomness
                     /\ 2 * Dist(added, 0) <= effect.randomness]_vars

\* C20 witness: a frame under the explosion pattern has moved a node that was
\* away from its target.
C20_Witness ==
    /\ lastEvent.type = "frame"
    /\ animationSettings = "energetic"
    /\ \E i \in Nodes, a \in 1 .. 3 :
          Dist(targets[i][a], nodePos[i][a]) > 1000

\* C21: for a wheel event inside the container whose new distance is not
\* clamped, the change of the camera distance is proportional to deltaY (the
\* change for deltaY = 120, times deltaY / 120), so that doubling the scroll
\* amount doubles the change and opposite directions move the camera in
\* opposite directions.
C21_ZoomProportional ==
    [][(/\ lastEvent'.type = "wheel"
        /\ lastEvent'.inside
        /\ minDistance < cameraDistance'
        /\ cameraDistance' < maxDistance)
          => (cameraDistance' - cameraDistance) * 120
                = (zoomedDistance(InitialDistance, 120) - InitialDistance)
                     * lastEvent'.deltaY]_vars

\* C22: when the generation loop has run for an even node count n, n/2 nodes
\* are tagged first strand and n/2 second strand; for every strand-local
\* index k the second strand's baseAngle is the first strand's plus pi and
\* both have the same heightProgress; every heightProgress is in [-1, 1).
C22_DoubleHelix ==
    (Len(nodes) = helixCount /\ helixCount % 2 = 0) =>
        LET half == helixCount \div 2
        IN  /\ Cardinality({k \in 1 .. helixCount : nodes[k].isSecondStrand})
                  = half
            /\ Cardinality({k \in 1 .. helixCount : ~nodes[k].isSecondStrand})
                  = half
            /\ \A k \in 1 .. half :
                  /\ ~nodes[k].isSecondStrand
                  /\ nodes[half + k].isSecondStrand
                  /\ nodes[half + k].baseAngle
                        = nodes[k].baseAngle + helixOffset(helixCount)
                  /\ nodes[half + k].heightProgress = nodes[k].heightProgress
            /\ \A k \in 1 .. helixCount :
                  /\ -helixCount <= nodes[k].heightProgress
                  /\ nodes[k].heightProgress < helixCount

\* C22 witness: the loop has run to its end for the source's node count.
C22_Witness == helixCount = nodeCount /\ Len(nodes) = nodeCount

C24_FrameSequence ==
    [][(lastEvent'.type = "frame" /\ isActive)
          => /\ rendered'
             /\ positions' = nodePos'
             /\ \A i \in Nodes :
                   /\ colorSrc'[i] = colorBranch(i, selectedNode, hoveredNode)
                   /\ basePulse(animationSettings, -1000) <= sizes'[i]
                   /\ sizes'[i] <= basePulse(animationSettings, 1000)]_vars

\* C25: once BackgroundPattern is unmounted its animation loop is cancelled:
\* no frame of it is scheduled, and none has rendered against the disposed
\* renderer.
C25_PatternLoopCancelled ==
    patternPhase = "cleaned" =>
        /\ ~patternFramePending
        /\ patternRender # "disposed"

\* C26: while the visualization is mounted, the mood name selected in the
\* control, the animation settings the frame loop reads and the description
\* shown belong to one preset of the table, after every selection.
C26_PresetConsistency ==
    isActive =>
        \E m \in Presets :
            /\ currentMood = m
            /\ animationSettings = m
            /\ moodDescription = moodPresets[m].description

\* C26 witness: a second selection has been made, to a preset other than the
\* initial one.
C26_Witness ==
    /\ isActive
    /\ lastEvent.type = "selectMood"
    /\ Len(tweens) = 2
    /\ currentMood # "calm"

\* C27: while the sidebar is open the hand's toast never shows the click
\* prompt, and no timer of the initial sequence (heyTimer, promptTimer) fires
\* after the component is unmounted.
C27_HandToast ==
    /\ (handMounted /\ sidebarIsOpen /\ showToast) => toastMessage # ClickPrompt
    /\ ~handMounted => handEvent \notin {"heyTimer", "promptTimer"}

\* C28: after App's mount and after every navigation the bar is shown; while
\* App is mounted the bar is hidden only when at least 500 ms have passed
\* since the latest route change, so the timeout of an earlier change never
\* hides it; once more than 500 ms have passed it is hidden; and a shown bar
\* is eventually hidden.
C28_IndicatorTiming ==
    /\ [][navEvent' \in {"mount", "mobileLink", "desktopLink"}
              => isNavigating']_vars
    /\ [](appMounted =>
            /\ ~isNavigating => clock - lastRouteChange >= navDelay
            /\ clock - lastRouteChange > navDelay => ~isNavigating)
    /\ (appMounted /\ isNavigating) ~> ~isNavigating

\* C28 witness: a second navigation came inside the window of the first, the
\* window of the second has passed, and the bar is hidden.
C28_Witness ==
    /\ appMounted
    /\ location.key = 2
    /\ navEvent = "timer"
    /\ ~isNavigating
    /\ lastRouteChange = navDelay + 3
    /\ clock = lastRouteChange + navDelay

\* C29: a press of the menu button flips isOpen, and after a navigation
\* from a link of the mobile menu the menu is closed.
C29_MobileMenu ==
    [][/\ navEvent' = "button" => isOpen' = ~isOpen
       /\ navEvent' = "mobileLink" => ~isOpen']_vars

\* C29 witness: after three presses of the button a link of the open mobile
\* menu led to another route and the menu is closed.
C29_Witness ==
    /\ navEvent = "mobileLink"
    /\ presses = 3
    /\ location.pathname = "/contact"
    /\ ~isOpen

====
